---------------------------- MODULE Spec2Model ----------------------------
(***************************************************************************)
(* A model of extract_products.py: the section parser                      *)
(* (parse_product_details), the document extractor and record normalizer   *)
(* (parse_html_file) and the catalog aggregator and exporter (main).       *)
(*                                                                         *)
(* Python values are tagged records, so that None, numbers, strings,       *)
(* lists and dicts can be compared with one another as Python compares     *)
(* them.  A dict is a function from its keys (strings) to values.          *)
(* Product identifiers are JSON numbers or null, which Python can hash.     *)
(***************************************************************************)
EXTENDS Integers, Sequences, FiniteSets, TLC

(***************************************************************************)
(* Python values                                                           *)
(***************************************************************************)
None == [null |-> TRUE]

Str(s) == [str |-> s]

Num(n) == [num |-> n]

Bool(b) == [bool |-> b]

List(l) == [list |-> l]

Dict(d) == [dict |-> d]

EmptyDict == <<>>

IsStr(v) == DOMAIN v = {"str"}

IsNum(v) == DOMAIN v = {"num"}

IsList(v) == DOMAIN v = {"list"}

IsDict(v) == DOMAIN v = {"dict"}

\* Python truthiness of a value: None, '', 0, False, [] and {} are false.
Truthy(v) ==
  CASE v = None -> FALSE
    [] IsStr(v) -> v.str # ""
    [] IsNum(v) -> v.num # 0
    [] IsList(v) -> v.list # <<>>
    [] IsDict(v) -> DOMAIN v.dict # {}
    [] DOMAIN v = {"html"} -> TRUE
    [] OTHER -> v.bool

\* dict.get(key, default)
Get(d, key, default) == IF key \in DOMAIN d THEN d[key] ELSE default

\* d[key] = value on a dict: insert, or overwrite the value under the key
SetItem(d, key, value) == [k \in DOMAIN d \cup {key} |-> IF k = key THEN value ELSE d[k]]

\* sep.join(texts) on a list of strings
RECURSIVE Join(_, _)
Join(sep, texts) ==
  IF texts = <<>> THEN ""
  ELSE IF Len(texts) = 1 THEN texts[1]
  ELSE texts[1] \o sep \o Join(sep, Tail(texts))

(***************************************************************************)
(* Text of a headline.  A text is a sequence of tokens, each a word or one *)
(* space, so that strip, lower and replace act on it as they do on the     *)
(* characters of a Python string.                                          *)
(***************************************************************************)
Space == " "

LowerCase ==
  [w \in {"Benefits", "How", "To", "Use", "Directions", "For", "Details",
          "Specification", "Care", "Ingredients", "Inclusions"} |->
     CASE w = "Benefits" -> "benefits"
       [] w = "How" -> "how"
       [] w = "To" -> "to"
       [] w = "Use" -> "use"
       [] w = "Directions" -> "directions"
       [] w = "For" -> "for"
       [] w = "Details" -> "details"
       [] w = "Specification" -> "specification"
       [] w = "Care" -> "care"
       [] w = "Ingredients" -> "ingredients"
       [] w = "Inclusions" -> "inclusions"]

\* str.strip() on a text: the spaces at both ends go, those inside stay
RECURSIVE StripText(_)
StripText(t) ==
  IF t = <<>> THEN t
  ELSE IF Head(t) = Space THEN StripText(Tail(t))
  ELSE IF t[Len(t)] = Space THEN StripText(SubSeq(t, 1, Len(t) - 1))
  ELSE t

\* str.lower() on a text
LowerText(t) == [i \in 1..Len(t) |-> IF t[i] \in DOMAIN LowerCase THEN LowerCase[t[i]] ELSE t[i]]

\* str.replace(' ', '_') on a text: every single space becomes one underscore
ReplaceSpaces(t) == [i \in 1..Len(t) |-> IF t[i] = Space THEN "_" ELSE t[i]]

\* headline_span.get_text(strip=True).lower().replace(' ', '_')
HeadlineKey(t) == Join("", ReplaceSpaces(LowerText(StripText(t))))

(***************************************************************************)
(* parse_product_details.  A description is None, the empty string, or a   *)
(* fragment [html |-> nodes]: a node is a paragraph [tag |-> "p", text]    *)
(* or a <details> element with or without a <summary>, the summary with or *)
(* without a headline span (headline = None when it has none), and with or *)
(* without a div.indent-content holding elements [tag, text].              *)
(***************************************************************************)
CollectedTags == {"p", "li", "h3", "h4", "h5", "h6"}

\* desc_soup.find('p'): the first <p> of the fragment in document order,
\* inside a <details> content region or not
RECURSIVE FirstParagraph(_)
FirstParagraph(nodes) ==
  IF nodes = <<>> THEN None
  ELSE LET n == Head(nodes)
           inner == IF n.tag = "details" /\ n.has_content
                    THEN SelectSeq(n.elements, LAMBDA e : e.tag = "p")
                    ELSE <<>>
       IN  IF n.tag = "p" THEN Str(n.text)
           ELSE IF inner # <<>> THEN Str(inner[1].text)
           ELSE FirstParagraph(Tail(nodes))

\* '\n'.join(texts).strip(): each text is already stripped, so the strip
\* removes what the empty texts at both ends leave behind
RECURSIVE TrimEmpty(_)
TrimEmpty(texts) ==
  IF texts = <<>> THEN texts
  ELSE IF Head(texts) = "" THEN TrimEmpty(Tail(texts))
  ELSE IF texts[Len(texts)] = "" THEN TrimEmpty(SubSeq(texts, 1, Len(texts) - 1))
  ELSE texts

ContentText(elements) ==
  LET kept == SelectSeq(elements, LAMBDA e : e.tag \in CollectedTags)
      texts == [i \in 1..Len(kept) |-> kept[i].text]
  IN  Join("\n", TrimEmpty(texts))

\* One iteration of the loop over desc_soup.find_all('details')
DetailsStepAlways(sections, tag) ==
  IF tag.has_summary
  THEN SetItem(sections,
               IF tag.headline # None THEN HeadlineKey(tag.headline.text) ELSE "general_details",
               Str(IF tag.has_content THEN ContentText(tag.elements) ELSE ""))
  ELSE SetItem(sections, "general_details",
               Str(IF tag.has_content THEN ContentText(tag.elements) ELSE ""))

DetailsStep(sections, tag) ==
  IF ~tag.has_summary THEN sections
  ELSE LET headline == IF tag.headline # None
                       THEN HeadlineKey(tag.headline.text)
                       ELSE "general_details"
       IN  IF tag.has_content
           THEN SetItem(sections, headline, Str(ContentText(tag.elements)))
           ELSE sections

RECURSIVE DetailsLoop(_, _)
DetailsLoop(sections, tags) ==
  IF tags = <<>> THEN sections
  ELSE DetailsLoop(DetailsStep(sections, Head(tags)), Tail(tags))

parse_product_details(description_html) ==
  IF ~Truthy(description_html) THEN EmptyDict
  ELSE LET nodes == description_html.html
           main_description == FirstParagraph(nodes)
           start == SetItem(EmptyDict, "description",
                            IF main_description # None THEN main_description ELSE Str(""))
       IN  DetailsLoop(start, SelectSeq(nodes, LAMBDA n : n.tag = "details"))

(***************************************************************************)
(* parse_html_file, one product container.                                 *)
(*                                                                         *)
(* A container (li.productgrid--item) has a script tag or none; the        *)
(* string of the tag is None (a tag with no content), a text that is not   *)
(* JSON (bad_json), or the text of a JSON value [json |-> v], v being what *)
(* json.loads returns for it.                                              *)
(***************************************************************************)
BadJson == [bad_json |-> TRUE]

JsonText(v) == [json |-> v]

NoScript == [has_script |-> FALSE, string |-> None]

Script(string) == [has_script |-> TRUE, string |-> string]

\* Outcomes of a block of code: a value, or the class of the exception raised
Ok(v) == [ok |-> TRUE, value |-> v]

Raise(e) == [ok |-> FALSE, error |-> e]

\* The exception classes the except clause of parse_html_file names
CaughtAll == {"JSONDecodeError", "AttributeError", "TypeError"}

Caught == {"JSONDecodeError", "AttributeError"}

\* json.loads(script_tag.string)
Loads(string) ==
  IF string = None THEN Raise("TypeError")
  ELSE IF string = BadJson THEN Raise("JSONDecodeError")
  ELSE Ok(string.json)

\* f"{price:.2f}" of price = cents / 100.0
TwoDigits(n) == IF n < 10 THEN "0" \o ToString(n) ELSE ToString(n)

FormatPrice(cents) ==
  LET a == IF cents < 0 THEN 0 - cents ELSE cents
  IN  (IF cents < 0 THEN "-" ELSE "") \o ToString(a \div 100) \o "." \o TwoDigits(a % 100)

\* product_json.get('price', 0) / 100.0, kept in cents, the price a number or
\* None: None / 100.0 raises TypeError
Price(product_json) ==
  LET raw == Get(product_json, "price", Num(0))
  IN  IF IsNum(raw) THEN Ok(raw.num) ELSE Raise("TypeError")

\* ', '.join(product_json.get('tags', [])), the tags None or a list of strings
Tags(product_json) ==
  LET raw == Get(product_json, "tags", List(<<>>))
  IN  IF IsList(raw)
      THEN Ok(Str(Join(", ", [i \in 1..Len(raw.list) |-> raw.list[i].str])))
      ELSE Raise("TypeError")

BaseUrl == "https://beautederm.sg/collections/all/products/"

\* str(v) as an f-string formats it
Format(v) == IF v = None THEN "None" ELSE v.str

\* The alias lookups of the narrative fields
HowToUseLast(parsed_details) ==
  Get(parsed_details, "directions_for_use", Get(parsed_details, "how_to_use", None))

HowToUse(parsed_details) ==
  Get(parsed_details, "how_to_use", Get(parsed_details, "directions_for_use", None))

Specifications(parsed_details) ==
  Get(parsed_details, "details", Get(parsed_details, "specification", None))

\* The product_info dict, price and tags already computed
ProductInfo(product_json, price, tags, parsed_details) ==
  [c \in {"product_id", "title", "price ($)", "stock_status", "product_type",
          "vendor", "tags", "description", "benefits", "how_to_use",
          "ingredients", "specifications", "care_instructions", "inclusions",
          "product_url", "primary_image_url"} |->
     CASE c = "product_id" -> Get(product_json, "id", None)
       [] c = "title" -> Get(product_json, "title", None)
       [] c = "price ($)" -> Str(FormatPrice(price))
       [] c = "stock_status" ->
            IF Truthy(Get(product_json, "available", Bool(FALSE)))
            THEN Str("In Stock") ELSE Str("Sold Out")
       [] c = "product_type" -> Get(product_json, "type", None)
       [] c = "vendor" -> Get(product_json, "vendor", None)
       [] c = "tags" -> tags
       [] c = "description" -> Get(parsed_details, "description", None)
       [] c = "benefits" -> Get(parsed_details, "benefits", None)
       [] c = "how_to_use" -> HowToUse(parsed_details)
       [] c = "ingredients" -> Get(parsed_details, "ingredients", None)
       [] c = "specifications" -> Specifications(parsed_details)
       [] c = "care_instructions" -> Get(parsed_details, "care", None)
       [] c = "inclusions" -> Get(parsed_details, "inclusions", None)
       [] c = "product_url" -> Str(BaseUrl \o Format(Get(product_json, "handle", None)))
       [] c = "primary_image_url" -> Get(product_json, "featured_image", None)]

\* The try block of the loop body: Ok(product_info) or the exception it raises
TryItem(string) ==
  LET loaded == Loads(string)
  IN  IF ~loaded.ok THEN loaded
      ELSE IF ~IsDict(loaded.value) THEN Raise("AttributeError")
      ELSE LET product_json == loaded.value.dict
               price == Price(product_json)
               tags == Tags(product_json)
           IN  IF ~price.ok THEN price
               ELSE IF ~tags.ok THEN tags
               ELSE Ok(ProductInfo(product_json, price.value, tags.value,
                         parse_product_details(Get(product_json, "description", None))))

(***************************************************************************)
(* parse_html_file: the loop over the product containers.  The result is   *)
(* the list returned and the number of "Skipping an item" messages         *)
(* printed, or the exception that left the function.                       *)
(***************************************************************************)
RECURSIVE ItemLoop(_, _, _)
ItemLoop(product_items, products_list, skipped) ==
  IF product_items = <<>> THEN [raised |-> FALSE, products |-> products_list, skipped |-> skipped]
  ELSE LET item == Head(product_items)
           rest == Tail(product_items)
       IN  IF ~item.has_script THEN ItemLoop(rest, products_list, skipped)
           ELSE LET r == TryItem(item.string)
                IN  IF r.ok THEN ItemLoop(rest, Append(products_list, r.value), skipped)
                    ELSE IF r.error \in Caught THEN ItemLoop(rest, products_list, skipped + 1)
                    ELSE [raised |-> TRUE, products |-> <<>>, skipped |-> skipped]

parse_html_file(file_content) == ItemLoop(file_content, <<>>, 0)

(***************************************************************************)
(* Bounds and inputs                                                       *)
(***************************************************************************)
\* The number of entries of html_files that the model runs through
MaxFiles == 2

\* The most product containers in one document
MaxItems == 2

\* The most nodes in one description fragment
MaxNodes == 2

Description ==
  [html |-> << [tag |-> "p", text |-> "Gentle soap"],
               [tag |-> "details", has_summary |-> TRUE,
                headline |-> [text |-> <<"Benefits">>], has_content |-> TRUE,
                elements |-> << [tag |-> "li", text |-> "Whitens"] >>] >>]

FullPayload(id, title) ==
  [id |-> id, title |-> Str(title), handle |-> Str("soap"), price |-> Num(2550),
   available |-> Bool(TRUE), type |-> Str("Soap"), vendor |-> Str("Beautederm"),
   tags |-> List(<<Str("face"), Str("care")>>), description |-> Description,
   featured_image |-> Str("soap.jpg")]

\* The payload with some keys removed, and with some keys set to null
Without(payload, keys) == [k \in DOMAIN payload \ keys |-> payload[k]]

WithNull(payload, keys) == [k \in DOMAIN payload |-> IF k \in keys THEN None ELSE payload[k]]

\* Payloads that carry every field
CompletePayloads ==
  {FullPayload(Num(1001), "A"), FullPayload(Num(1001), "B"), FullPayload(Num(1002), "A")}

\* A payload whose identifier is null
NoIdPayload == WithNull(FullPayload(Num(1001), "A"), {"id"})

\* Payloads with an identifier that lack a title, a handle or a price: the
\* first has no title and no price and a null handle, the second a null price
LackingPayload ==
  Without(WithNull(FullPayload(Num(1002), "B"), {"handle"}), {"title", "price"})

NullPricePayload == WithNull(FullPayload(Num(1001), "B"), {"price"})

Payloads == CompletePayloads \cup {NoIdPayload, LackingPayload, NullPricePayload}

PayloadItem(payload) == Script(JsonText(Dict(payload)))

\* Containers whose script content does not decode as JSON: no content at
\* all, and a text that is not JSON
UndecodableItems == {Script(None), Script(BadJson)}

\* A container whose script content is JSON, but no object
NonObjectItem == Script(JsonText(List(<<>>)))

Items ==
  {NoScript, NonObjectItem} \cup UndecodableItems
    \cup {PayloadItem(payload) : payload \in Payloads}

SeqsUpTo(S, n) == UNION {[1..m -> S] : m \in 0..n}

Documents == SeqsUpTo(Items, MaxItems)

(***************************************************************************)
(* main: the state of a run.  content, products_from_file and the loop     *)
(* index belong to one iteration of the loop over html_files: the next     *)
(* iteration assigns each before it reads it, so the model clears them     *)
(* when an iteration ends and the states between two files differ only in  *)
(* what main can still read.                                               *)
(***************************************************************************)
VARIABLES
  pc,                  \* where main is: "open", "parse", "merge", "export", "done"
  file_no,             \* the index in html_files of the current filename
  content,             \* content = f.read()
  products_from_file,  \* what parse_html_file returned for content
  next_product,        \* the index of the for loop over products_from_file
  all_products,
  processed_ids,
  message,             \* the last message main printed
  skipped,             \* "Skipping an item" messages printed for content
  csv,                 \* the table written by to_csv: None, or columns and rows
  first_seen,          \* history: the first occurrences among all records returned so far
  item_pc,             \* where the body of parse_html_file's loop is, run alone
  product_json,
  parsed_details,
  product_info

main_vars ==
  <<pc, file_no, content, products_from_file, next_product, all_products,
    processed_ids, message, skipped, csv, first_seen>>

item_vars == <<item_pc, product_json, parsed_details, product_info>>

vars == <<main_vars, item_vars>>

\* The records of s whose product_id no record before them in s has
RECURSIVE FirstOccurrencesFrom(_, _)
FirstOccurrencesFrom(s, i) ==
  IF i > Len(s) THEN <<>>
  ELSE IF \A j \in 1..(i - 1) : s[j]["product_id"] # s[i]["product_id"]
       THEN <<s[i]>> \o FirstOccurrencesFrom(s, i + 1)
       ELSE FirstOccurrencesFrom(s, i + 1)

FirstOccurrences(s) == FirstOccurrencesFrom(s, 1)

MainInit ==
  /\ pc = "open"
  /\ file_no = 1
  /\ content = <<>>
  /\ products_from_file = <<>>
  /\ next_product = 1
  /\ all_products = <<>>
  /\ processed_ids = {}
  /\ message = "Starting product extraction..."
  /\ skipped = 0
  /\ csv = None
  /\ first_seen = <<>>

ItemIdle ==
  /\ item_pc = "idle"
  /\ product_json = EmptyDict
  /\ parsed_details = EmptyDict
  /\ product_info = None

Init == MainInit /\ ItemIdle

\* with open(filename) as f: content = f.read()
OpenFile(document) ==
  /\ pc = "open"
  /\ file_no <= MaxFiles
  /\ content' = document
  /\ message' = "Processing"
  /\ pc' = "parse"
  /\ UNCHANGED <<file_no, products_from_file, next_product, all_products,
                 processed_ids, skipped, csv, first_seen>>
  /\ UNCHANGED item_vars

\* open or read raises: FileNotFoundError, or another exception (a
\* PermissionError, a UnicodeDecodeError); both handlers only print
OpenFailsAbort(error) ==
  /\ pc = "open"
  /\ file_no <= MaxFiles
  /\ message' = error
  /\ pc' = "done"
  /\ UNCHANGED <<file_no, content, products_from_file, next_product, all_products,
                 processed_ids, skipped, csv, first_seen>>
  /\ UNCHANGED item_vars

OpenFails(error) ==
  /\ pc = "open"
  /\ file_no <= MaxFiles
  /\ message' = error
  /\ file_no' = file_no + 1
  /\ UNCHANGED <<pc, content, products_from_file, next_product, all_products,
                 processed_ids, skipped, csv, first_seen>>
  /\ UNCHANGED item_vars

\* products_from_file = parse_html_file(content), or the exception that
\* leaves it is handled by except Exception and the iteration is over
ParseFile ==
  /\ pc = "parse"
  /\ LET r == parse_html_file(content)
     IN  IF r.raised
         THEN /\ message' = "An unexpected error occurred"
              /\ file_no' = file_no + 1
              /\ pc' = "open"
              /\ content' = <<>>
              /\ skipped' = 0
              /\ UNCHANGED <<products_from_file, next_product, first_seen>>
         ELSE /\ products_from_file' = r.products
              /\ skipped' = r.skipped
              /\ next_product' = 1
              /\ pc' = "merge"
              /\ first_seen' = FirstOccurrences(first_seen \o r.products)
              /\ UNCHANGED <<message, file_no, content>>
  /\ UNCHANGED <<all_products, processed_ids, csv>>
  /\ UNCHANGED item_vars

\* One iteration of: for product in products_from_file
MergeProductNoCheck ==
  /\ pc = "merge"
  /\ next_product <= Len(products_from_file)
  /\ LET product == products_from_file[next_product]
     IN  /\ all_products' = Append(all_products, product)
         /\ processed_ids' = processed_ids \cup {product["product_id"]}
  /\ next_product' = next_product + 1
  /\ UNCHANGED <<pc, file_no, content, products_from_file, message, skipped, csv, first_seen>>
  /\ UNCHANGED item_vars

MergeProductLastWins ==
  /\ pc = "merge"
  /\ next_product <= Len(products_from_file)
  /\ LET product == products_from_file[next_product]
     IN  IF product["product_id"] \notin processed_ids
         THEN /\ all_products' = Append(all_products, product)
              /\ processed_ids' = processed_ids \cup {product["product_id"]}
         ELSE /\ all_products' =
                   [i \in 1..Len(all_products) |->
                      IF all_products[i]["product_id"] = product["product_id"]
                      THEN product ELSE all_products[i]]
              /\ UNCHANGED processed_ids
  /\ next_product' = next_product + 1
  /\ UNCHANGED <<pc, file_no, content, products_from_file, message, skipped, csv, first_seen>>
  /\ UNCHANGED item_vars

MergeProduct ==
  /\ pc = "merge"
  /\ next_product <= Len(products_from_file)
  /\ LET product == products_from_file[next_product]
     IN  IF product["product_id"] \notin processed_ids
         THEN /\ all_products' = Append(all_products, product)
              /\ processed_ids' = processed_ids \cup {product["product_id"]}
         ELSE UNCHANGED <<all_products, processed_ids>>
  /\ next_product' = next_product + 1
  /\ UNCHANGED <<pc, file_no, content, products_from_file, message, skipped, csv, first_seen>>
  /\ UNCHANGED item_vars

\* The for loop over products_from_file ends: the next filename
EndFile ==
  /\ pc = "merge"
  /\ next_product > Len(products_from_file)
  /\ file_no' = file_no + 1
  /\ pc' = "open"
  /\ content' = <<>>
  /\ products_from_file' = <<>>
  /\ next_product' = 1
  /\ skipped' = 0
  /\ UNCHANGED <<all_products, processed_ids, message, csv, first_seen>>
  /\ UNCHANGED item_vars

\* The loop over html_files ends with nothing extracted: main returns
NoProducts ==
  /\ pc = "open"
  /\ file_no > MaxFiles
  /\ all_products = <<>>
  /\ message' = "No products were extracted"
  /\ pc' = "done"
  /\ UNCHANGED <<file_no, content, products_from_file, next_product, all_products,
                 processed_ids, skipped, csv, first_seen>>
  /\ UNCHANGED item_vars

column_order ==
  << "product_id", "title", "price ($)", "stock_status", "product_type",
     "vendor", "tags", "description", "benefits", "how_to_use",
     "ingredients", "specifications", "inclusions", "care_instructions",
     "product_url", "primary_image_url" >>

\* pd.DataFrame(all_products).columns: the keys of the dicts
DataFrameColumns(records) == UNION {DOMAIN records[i] : i \in 1..Len(records)}

\* [col for col in column_order if col in df.columns]
ExportColumns(records) ==
  SelectSeq(column_order, LAMBDA col : col \in DataFrameColumns(records))

\* df.reindex(columns=...) and df.to_csv, which may fail
Export(written) ==
  /\ pc = "open"
  /\ file_no > MaxFiles
  /\ all_products # <<>>
  /\ LET columns == ExportColumns(all_products)
     IN  IF written
         THEN /\ csv' = [columns |-> columns,
                         rows |-> [i \in 1..Len(all_products) |->
                                     [j \in 1..Len(columns) |-> all_products[i][columns[j]]]]]
              /\ message' = "Success"
         ELSE /\ csv' = None
              /\ message' = "Error saving file"
  /\ pc' = "done"
  /\ UNCHANGED <<file_no, content, products_from_file, next_product, all_products,
                 processed_ids, skipped, first_seen>>
  /\ UNCHANGED item_vars

OpenErrors == {"Error: File not found", "An unexpected error occurred while reading"}

Next ==
  \/ \E document \in Documents : OpenFile(document)
  \/ \E error \in OpenErrors : OpenFails(error)
  \/ ParseFile
  \/ MergeProduct
  \/ EndFile
  \/ NoProducts
  \/ \E written \in BOOLEAN : Export(written)

Spec == Init /\ [][Next]_vars

(***************************************************************************)
(* The body of parse_html_file's loop for one decoded payload, step by     *)
(* step, over payloads whose descriptions vary.                            *)
(***************************************************************************)
Headlines ==
  { <<"How", Space, "To", Space, "Use">>,
    <<Space, "Directions", Space, "For", Space, "Use", Space>>,
    <<"Details">>,
    <<"Specification">>,
    <<"Benefits">> }

\* The content region of a <details>: none, or the elements of the div
Contents ==
  { [has_content |-> FALSE, elements |-> <<>>],
    [has_content |-> TRUE, elements |-> <<>>],
    [has_content |-> TRUE,
     elements |-> << [tag |-> "li", text |-> "Apply"], [tag |-> "p", text |-> "Rinse"] >>],
    [has_content |-> TRUE,
     elements |-> << [tag |-> "span", text |-> "Note"], [tag |-> "p", text |-> ""],
                     [tag |-> "h3", text |-> "Daily"] >>] }

DetailsTag(has_summary, headline, region) ==
  [tag |-> "details", has_summary |-> has_summary, headline |-> headline,
   has_content |-> region.has_content, elements |-> region.elements]

Nodes ==
  { [tag |-> "p", text |-> "Gentle soap"] }
    \cup {DetailsTag(TRUE, [text |-> h], c) : h \in Headlines, c \in Contents}
    \cup {DetailsTag(TRUE, None, c) : c \in Contents}
    \cup {DetailsTag(FALSE, None, c) : c \in Contents}

Descriptions == {None, Str("")} \cup {[html |-> nodes] : nodes \in SeqsUpTo(Nodes, MaxNodes)}

ItemPayloads ==
  {[FullPayload(Num(1001), "A") EXCEPT !.description = d] : d \in Descriptions}
    \cup {Without(FullPayload(Num(1001), "A"), {"description"}),
          Without(FullPayload(Num(1001), "A"), {"id", "tags", "available"}),
          WithNull(FullPayload(Num(1001), "A"), {"tags"}),
          [FullPayload(Num(1001), "A") EXCEPT !.tags = List(<<>>)],
          NullPricePayload, LackingPayload}

InitItem ==
  /\ MainInit
  /\ item_pc = "extract"
  /\ product_json \in ItemPayloads
  /\ parsed_details = EmptyDict
  /\ product_info = None

\* The basic fields, the price among them: a price that is no number raises
Extract ==
  /\ item_pc = "extract"
  /\ item_pc' = IF Price(product_json).ok THEN "details" ELSE "raised"
  /\ UNCHANGED <<product_json, parsed_details, product_info>>
  /\ UNCHANGED main_vars

\* parsed_details = parse_product_details(product_json.get('description'))
ParseDetails ==
  /\ item_pc = "details"
  /\ parsed_details' = parse_product_details(Get(product_json, "description", None))
  /\ item_pc' = "build"
  /\ UNCHANGED <<product_json, product_info>>
  /\ UNCHANGED main_vars

\* product_info = {...}; products_list.append(product_info)
BuildInfo ==
  /\ item_pc = "build"
  /\ LET tags == Tags(product_json)
     IN  IF tags.ok
         THEN /\ product_info' = ProductInfo(product_json, Price(product_json).value,
                                             tags.value, parsed_details)
              /\ item_pc' = "appended"
         ELSE /\ item_pc' = "raised"
              /\ UNCHANGED product_info
  /\ UNCHANGED <<product_json, parsed_details>>
  /\ UNCHANGED main_vars

NextItem ==
  \/ Extract
  \/ ParseDetails
  \/ BuildInfo

SpecItem == InitItem /\ [][NextItem]_vars

(***************************************************************************)
(* Properties of the catalog aggregator (Spec)                             *)
(***************************************************************************)
\* C1: in every state of a run, no two records of all_products have the
\* same product_id.
NoDuplicateIds ==
  \A i, j \in 1..Len(all_products) :
    i # j => all_products[i]["product_id"] # all_products[j]["product_id"]

\* A record of the second document with the identifier, and another title,
\* of the record the first document gave has just been passed over.
DuplicateDropped ==
  /\ pc = "merge"
  /\ file_no = 2
  /\ next_product = 2
  /\ Len(all_products) = 1
  /\ products_from_file[1]["product_id"] = all_products[1]["product_id"]
  /\ products_from_file[1]["title"] # all_products[1]["title"]

\* C2: whenever a document has been merged (between two documents, and at
\* the end of the run), the catalog is the sequence of the first occurrences
\* of each identifier among the records parse_html_file returned, in the
\* order the documents were processed.
CatalogIsFirstOccurrences ==
  (\/ pc \in {"open", "done"}
   \/ pc = "merge" /\ next_product > Len(products_from_file))
    => all_products = first_seen

\* The second document repeats the identifier of the first with another
\* title and brings a new one: the first title stays, the new record follows.
FirstTitleKept ==
  /\ pc = "merge"
  /\ file_no = 2
  /\ Len(products_from_file) = 2
  /\ next_product = 3
  /\ Len(all_products) = 2
  /\ products_from_file[1]["product_id"] = all_products[1]["product_id"]
  /\ products_from_file[1]["title"] # all_products[1]["title"]
  /\ products_from_file[2] = all_products[2]

\* C3: a payload whose identifier is missing or null never becomes a record
\* of the catalog.
NullIdNeverRetained ==
  \A i \in 1..Len(all_products) : all_products[i]["product_id"] # None

CompleteItems == {PayloadItem(payload) : payload \in CompletePayloads}

CountIn(document, S) == Len(SelectSeq(document, LAMBDA item : item \in S))

\* C4: a document whose containers hold complete payloads or content that
\* does not decode (empty content included) yields one product for each
\* complete payload and one reported skip for each of the others.
UndecodableItemsSkipped ==
  [][(/\ pc = "parse"
      /\ \A i \in 1..Len(content) : content[i] \in CompleteItems \cup UndecodableItems)
       => /\ pc' = "merge"
          /\ Len(products_from_file') = CountIn(content, CompleteItems)
          /\ skipped' = CountIn(content, UndecodableItems)]_vars

\* C5: a source that cannot be opened or read is reported and skipped: the
\* catalog, the identifiers seen and the table are as they were, and main
\* goes on with the next source.
UnreadableSourceSkipped ==
  [][(pc = "open" /\ message' \in OpenErrors)
       => /\ all_products' = all_products
          /\ processed_ids' = processed_ids
          /\ first_seen' = first_seen
          /\ csv' = csv
          /\ pc' = "open"
          /\ file_no' = file_no + 1]_vars

\* The last source was unreadable and the two records of the source before
\* it are still the catalog.
UnreadableAfterProducts ==
  /\ pc = "open"
  /\ file_no = 3
  /\ message \in OpenErrors
  /\ Len(all_products) = 2

HasId(item) ==
  /\ item.has_script
  /\ item.string \notin {None, BadJson}
  /\ IsDict(item.string.json)
  /\ Get(item.string.json.dict, "id", None) # None

\* C6: every payload that has an identifier is emitted by parse_html_file,
\* whether or not it has a title, a handle or a price.
PayloadsWithIdEmitted ==
  [][(/\ pc = "parse"
      /\ \A i \in 1..Len(content) : HasId(content[i]))
       => /\ pc' = "merge"
          /\ Len(products_from_file') = Len(content)
          /\ \A i \in 1..Len(content) :
               products_from_file'[i]["product_id"] = content[i].string.json.dict["id"]]_vars

\* C7: the columns of the exported table are the columns of column_order
\* that some retained record populates, in that order.
OnlyPopulatedColumns ==
  csv # None =>
    csv.columns =
      SelectSeq(column_order,
                LAMBDA col : \E i \in 1..Len(all_products) : all_products[i][col] # None)

Fatal(item) ==
  /\ item.has_script
  /\ \/ item.string = None
     \/ /\ item.string # BadJson
        /\ IsDict(item.string.json)
        /\ LET d == item.string.json.dict
           IN  \/ "price" \in DOMAIN d /\ ~IsNum(d["price"])
               \/ "tags" \in DOMAIN d /\ ~IsList(d["tags"])

\* C10: when a container of the source raises an error parse_html_file does
\* not catch, nothing of the source is added: all_products and processed_ids
\* are as before the source, and main goes on with the next source.
SourceAllOrNothing ==
  [][(pc = "parse" /\ \E i \in 1..Len(content) : Fatal(content[i]))
       => /\ all_products' = all_products
          /\ processed_ids' = processed_ids
          /\ products_from_file' = products_from_file
          /\ message' = "An unexpected error occurred"
          /\ pc' = "open"
          /\ file_no' = file_no + 1]_vars

\* The second source raised, and the catalog is what the first source left.
RaisedAfterProducts ==
  /\ pc = "open"
  /\ file_no = 3
  /\ message = "An unexpected error occurred"
  /\ Len(all_products) = 2
  /\ products_from_file = <<>>

(***************************************************************************)
(* Properties of the section parser and the normalizer (SpecItem)          *)
(***************************************************************************)
FirstPresent(d, keys) ==
  IF keys[1] \in DOMAIN d THEN d[keys[1]]
  ELSE IF Len(keys) > 1 /\ keys[2] \in DOMAIN d THEN d[keys[2]]
  ELSE None

AliasLists ==
  [benefits |-> <<"benefits">>,
   how_to_use |-> <<"how_to_use", "directions_for_use">>,
   specifications |-> <<"details", "specification">>,
   ingredients |-> <<"ingredients">>,
   inclusions |-> <<"inclusions">>,
   care_instructions |-> <<"care">>]

\* C8: each narrative field of the record is the value under the first of
\* its aliases that is a key of the SectionMap, the empty string included,
\* and None when none of its aliases is a key.
AliasPriority ==
  item_pc = "appended" =>
    \A field \in DOMAIN AliasLists :
      product_info[field] = FirstPresent(parsed_details, AliasLists[field])

\* Both aliases are keys, how_to_use with the empty string: it is selected.
EmptyHowToUseSelected ==
  /\ item_pc = "appended"
  /\ {"how_to_use", "directions_for_use"} \subseteq DOMAIN parsed_details
  /\ parsed_details["how_to_use"] = Str("")
  /\ parsed_details["directions_for_use"] # Str("")
  /\ product_info["how_to_use"] = Str("")

description_html == Get(product_json, "description", None)

SubSections == SelectSeq(description_html.html, LAMBDA n : n.tag = "details")

SectionKey(tag) ==
  IF tag.headline # None THEN HeadlineKey(tag.headline.text) ELSE "general_details"

\* C9 as stated: every sub-section of a non-empty description has its key
\* in the SectionMap, the normalized headline or general_details, also when
\* its content region is empty or missing.
EverySubSectionHasEntry ==
  (item_pc \in {"build", "appended"} /\ Truthy(description_html)) =>
    \A i \in 1..Len(SubSections) : SectionKey(SubSections[i]) \in DOMAIN parsed_details

Contributes(tag) == tag.has_summary /\ tag.has_content

\* C9 as amended: the sub-sections that have a summary and a content region
\* are the ones with an entry.  The key is the normalized headline, or
\* general_details when the summary has no headline; the value is the text
\* of the last such sub-section with the key, the empty string when its
\* content region holds no text; a sub-section without a summary or without
\* a content region adds no entry.
SubSectionsWithSummaryAndContent ==
  (item_pc \in {"build", "appended"} /\ Truthy(description_html)) =>
    /\ \A i \in 1..Len(SubSections) :
         LET tag == SubSections[i]
         IN  Contributes(tag) =>
               /\ SectionKey(tag) \in DOMAIN parsed_details
               /\ tag.headline = None => "general_details" \in DOMAIN parsed_details
               /\ tag.headline = [text |-> <<"How", Space, "To", Space, "Use">>]
                    => "how_to_use" \in DOMAIN parsed_details
               /\ tag.headline = [text |-> <<Space, "Directions", Space, "For", Space, "Use", Space>>]
                    => "directions_for_use" \in DOMAIN parsed_details
               /\ (\A j \in (i + 1)..Len(SubSections) :
                     ~(Contributes(SubSections[j]) /\ SectionKey(SubSections[j]) = SectionKey(tag)))
                    => /\ parsed_details[SectionKey(tag)] = Str(ContentText(tag.elements))
                       /\ tag.elements = <<>> => parsed_details[SectionKey(tag)] = Str("")
    /\ \A key \in DOMAIN parsed_details \ {"description"} :
         \E i \in 1..Len(SubSections) :
           Contributes(SubSections[i]) /\ SectionKey(SubSections[i]) = key

\* A sub-section without a content region left no entry, and one with an
\* empty content region and no headline left general_details with ''.
EmptyKeptMissingOmitted ==
  /\ item_pc = "build"
  /\ Truthy(description_html)
  /\ Len(SubSections) = 2
  /\ SubSections[1].has_summary /\ ~SubSections[1].has_content
  /\ SubSections[1].headline = [text |-> <<"Benefits">>]
  /\ Contributes(SubSections[2]) /\ SubSections[2].headline = None
  /\ SubSections[2].elements = <<>>
  /\ DOMAIN parsed_details = {"description", "general_details"}
  /\ parsed_details["general_details"] = Str("")

=============================================================================
